---------------------------- MODULE Spec2Model ----------------------------
(***************************************************************************)
(* The follow queue of xfollow (src/utils/followQueue.ts), its persisted   *)
(* state (src/utils/storage.ts) and the content script that constructs and *)
(* drives it (src/entrypoints/content.ts).                                 *)
(*                                                                         *)
(* JavaScript runs one callback at a time: an action below is one callback *)
(* (a public method call, a timer firing, the continuation of an await)    *)
(* run to its next await.  A storage call takes effect when it is issued   *)
(* (the browser serves one context's requests in the order they were       *)
(* sent); the continuation of its await is a later action.                 *)
(*                                                                         *)
(* Time.  Every timestamp the code keeps is only ever compared with        *)
(* Date.now(), so a timestamp t is held as max(0, t - Date.now()), the     *)
(* time left until it, and Tick lets one unit of time pass.  The local     *)
(* calendar date (the YYYY-MM-DD string of getTodayDateString, compared    *)
(* for equality only) is held as the number of the day.                    *)
(***************************************************************************)
EXTENDS Integers, Sequences, FiniteSets, TLC

\* ------------------------------------------------------------------ bounds
MaxLoops == 2
MaxProcessed == 2
MaxDay == 1
MaxCalls == 3
\* the daily-stats record alone: the days it is followed over, the first
\* days on which anything may happen (a day without a follow, several
\* follows, a reset), and the follows of such a day
MaxStatDay == 34
VaryDays == 2
MaxDayCount == 2

\* the handles the detector can report
Handles == {"a", "b"}
LoopIds == 1..MaxLoops
\* the timer of enterRateLimitState, as a timer id beside the loops' own
ErlTimerId == 0

\* --------------------------------------------------------------- constants
\* followQueue.ts field defaults, used when an option is falsy
DefaultMinDelay == 1000
DefaultMaxDelay == 3000
DefaultPauseThreshold == 10
DefaultPauseDuration == 600000
DefaultDailyLimit == 100
\* storage.ts: history keeps the last 30 days
HistoryCap == 30
\* the idle wait of process(): sleepRandom(500, 2000), in units of 500 ms
IdleMin == 1
IdleMax == 1

\* The settings objects a page may find stored (getSettings), the times in
\* units of the model: a rate limit reached before, with and without the
\* daily limit.
Limits == {<<1, 1>>, <<1, 2>>, <<2, 3>>}
Settings ==
  {[minDelay |-> 1, maxDelay |-> 1, rateLimitThreshold |-> lim[1],
    rateLimitDuration |-> 1, dailyFollowLimit |-> lim[2]] : lim \in Limits}

VARIABLES
  \* FollowQueue fields
  queue, status, processedCount, successCount, successSinceLastPause,
  resumeTimer, pauseUntil, todayFollowCount, dailyLimitTimer,
  minDelay, maxDelay, pauseThreshold, pauseDuration, dailyLimit,
  \* the live process() instances, each at its await
  loops,
  \* the pending timer of enterRateLimitState: <<>> or <<time left>>
  erlTimer,
  \* browser.storage.local
  settings, rateLimitState, dailyStats, dailyLimitState,
  \* the local calendar day
  day,
  \* history: the handles accepted by add() and neither started nor
  \* discarded yet, oldest first; whether stop() is the last public method
  \* called (add() and the getters aside); the number of such calls so far
  order, stopCalled, calls,
  \* the RESET_DAILY_STATS handler in flight: "none", or the await it is at
  resetHandler,
  \* history: the handles of the tasks stop() removed from the queue, a
  \* handle leaving the set when add() accepts a new task of that handle
  discarded

engine == <<queue, status, processedCount, successCount, successSinceLastPause,
            resumeTimer, pauseUntil, todayFollowCount, dailyLimitTimer>>
config == <<minDelay, maxDelay, pauseThreshold, pauseDuration, dailyLimit>>
storage == <<settings, rateLimitState, dailyStats, dailyLimitState>>
history == <<order, stopCalled, calls, discarded>>
vars == <<engine, config, loops, erlTimer, storage, day, history, resetHandler>>

\* ----------------------------------------------------------------- helpers
\* a slice that drops nothing
SliceAll(s, n) == s

\* Array.prototype.slice(-n)
SliceLast(s, n) ==
  IF Len(s) <= n THEN s ELSE SubSeq(s, Len(s) - n + 1, Len(s))

\* the sequence s without its first occurrence of x
Without(s, x) ==
  IF \E i \in 1..Len(s) : s[i] = x
    THEN LET i == CHOOSE k \in 1..Len(s) : s[k] = x /\ \A j \in 1..(k - 1) : s[j] # x
         IN SubSeq(s, 1, i - 1) \o SubSeq(s, i + 1, Len(s))
    ELSE s

\* sleepRandom(min, max): floor(random * (max - min + 1)) + min
SleepRandom(lo, hi) == lo..hi

\* a process() instance that does not exist (never started, returned, or
\* awaiting a promise whose timer was cleared)
NoLoop == [pc |-> "none", task |-> "", rem |-> 0, stats |-> <<>>, midnight |-> 0]

Live(l) == loops[l].pc # "none"
LiveLoops == {l \in LoopIds : Live(l)}
Executing == {l \in LoopIds : loops[l].pc = "exec"}

\* -------------------------------------------------------------- storage.ts
\* getTodayDateString
TodayDateString == day

\* getDailyStats that rolls the stored record over whatever its date
GetDailyStatsAlwaysRolls(saved, today) ==
  IF saved = <<>>
    THEN [today |-> [date |-> today, count |-> 0], history |-> <<>>]
  ELSE [today |-> [date |-> today, count |-> 0],
        history |-> SliceLast(Append(saved[1].history, saved[1].today), HistoryCap)]

\* getDailyStats: the stored record, rolled over to today when it is of
\* another date
GetDailyStats(saved, today) ==
  IF saved = <<>>
    THEN [today |-> [date |-> today, count |-> 0], history |-> <<>>]
  ELSE IF saved[1].today.date = today
    THEN saved[1]
  ELSE [today |-> [date |-> today, count |-> 0],
        history |-> SliceLast(Append(saved[1].history, saved[1].today), HistoryCap)]

\* incrementDailyFollowCount, after its await of getDailyStats: the record
\* it writes
IncrementedStats(stats, today) ==
  LET rolled == IF stats.today.date # today
                  THEN [today |-> [date |-> today, count |-> 0],
                        history |-> SliceLast(Append(stats.history, stats.today), HistoryCap)]
                  ELSE stats
  IN [rolled EXCEPT !.today.count = @ + 1]

\* the persisted count of today, as isDailyLimitReached reads it
PersistedTodayCount ==
  LET stats == GetDailyStats(dailyStats, TodayDateString)
  IN IF stats.today.date = TodayDateString THEN stats.today.count ELSE 0


\* ---------------------------------------------------------- followQueue.ts
\* the constructor: an option replaces the field's default unless it is falsy
Option(opt, default) == IF opt # 0 THEN opt ELSE default

\* getStats with total taken from the processed count alone
getStatsProcessedOnly ==
  [total |-> processedCount,
   remaining |-> Len(queue),
   processed |-> processedCount,
   success |-> successCount,
   status |-> status]

\* getStats
getStats ==
  [total |-> Len(queue) + processedCount,
   remaining |-> Len(queue),
   processed |-> processedCount,
   success |-> successCount,
   status |-> status]

\* getRateLimitInfo that reports the fields whatever the status
getRateLimitInfoAnyStatus ==
  [isRateLimited |-> status = "rate_limited",
   pauseUntil |-> pauseUntil,
   remainingMs |-> IF pauseUntil # <<>>
                     THEN <<IF pauseUntil[1] > 0 THEN pauseUntil[1] ELSE 0>>
                     ELSE <<>>,
   threshold |-> pauseThreshold,
   duration |-> pauseDuration,
   successSincePause |-> successSinceLastPause]

\* getRateLimitInfo.  pauseUntil is held as the time left until it, so
\* pauseUntil - Date.now() is pauseUntil[1]; a timestamp is not 0, so
\* this.pauseUntil is truthy whenever it is not null.
getRateLimitInfo ==
  LET isRateLimited == status = "rate_limited"
  IN [isRateLimited |-> isRateLimited,
      pauseUntil |-> IF isRateLimited THEN pauseUntil ELSE <<>>,
      remainingMs |-> IF isRateLimited /\ pauseUntil # <<>>
                        THEN <<IF pauseUntil[1] > 0 THEN pauseUntil[1] ELSE 0>>
                        ELSE <<>>,
      threshold |-> pauseThreshold,
      duration |-> pauseDuration,
      successSincePause |-> successSinceLastPause]

\* getDailyLimitInfo with remaining taken from the limit alone
getDailyLimitInfoByLimit ==
  [isDailyLimited |-> status = "daily_limit_reached",
   todayCount |-> todayFollowCount,
   limit |-> dailyLimit,
   remaining |-> dailyLimit,
   resetAt |-> IF status = "daily_limit_reached" THEN <<day + 1>> ELSE <<>>]

\* getDailyLimitInfo; resetAt, the next local midnight, as the day it begins
getDailyLimitInfo ==
  [isDailyLimited |-> status = "daily_limit_reached",
   todayCount |-> todayFollowCount,
   limit |-> dailyLimit,
   remaining |-> IF dailyLimit - todayFollowCount > 0
                   THEN dailyLimit - todayFollowCount ELSE 0,
   resetAt |-> IF status = "daily_limit_reached" THEN <<day + 1>> ELSE <<>>]

\* clearTimeout(id) on the loops: the loop awaiting that timer never resumes
ClearLoopTimer(tm, at, lp) ==
  IF tm # <<>> /\ tm[1] \in LoopIds /\ lp[tm[1]].pc = at
    THEN [lp EXCEPT ![tm[1]] = NoLoop]
    ELSE lp

\* clearTimeout(resumeTimer) on the timer of enterRateLimitState
ClearErlTimer(tm, t) == IF tm = <<ErlTimerId>> THEN <<>> ELSE t

\* queue.shift() on a queue that is not empty: the task taken and the rest
ShiftLast(q) == [task |-> q[Len(q)], rest |-> SubSeq(q, 1, Len(q) - 1)]
Shift(q) == [task |-> Head(q), rest |-> Tail(q)]

\* process(), from the test of its while to its next await, run by loop l
\* with the fields as this callback has set them so far: s (status), q
\* (queue), tm (resumeTimer), lp (loops)
LoopTop(l, s, q, tm, lp) ==
  IF s = "rate_limited"
    THEN /\ status' = s
         /\ queue' = q
         /\ order' = order
         /\ resumeTimer' = <<l>>
         /\ loops' = [lp EXCEPT ![l] = [NoLoop EXCEPT !.pc = "cooldown", !.rem = pauseDuration]]
  ELSE IF s = "running"
    THEN IF q = <<>>
           THEN /\ status' = s
                /\ queue' = q
                /\ order' = order
                /\ resumeTimer' = tm
                /\ \E d \in SleepRandom(IdleMin, IdleMax) :
                     loops' = [lp EXCEPT ![l] = [NoLoop EXCEPT !.pc = "idle", !.rem = d]]
           ELSE /\ status' = s
                /\ queue' = Shift(q).rest
                /\ order' = Without(order, Shift(q).task)
                /\ resumeTimer' = tm
                /\ loops' = [lp EXCEPT ![l] = [NoLoop EXCEPT !.pc = "exec", !.task = Shift(q).task]]
  ELSE /\ status' = IF Len(q) = 0 THEN "idle" ELSE s
       /\ queue' = q
       /\ order' = order
       /\ resumeTimer' = tm
       /\ loops' = [lp EXCEPT ![l] = NoLoop]

\* the end of a try body that did not continue: the inter-task delay when
\* tasks are pending, else back to the test of the while
DelayOrTop(l, s, q, tm, lp) ==
  IF Len(q) > 0
    THEN /\ status' = s
         /\ queue' = q
         /\ order' = order
         /\ resumeTimer' = tm
         /\ \E d \in SleepRandom(minDelay, maxDelay) :
              loops' = [lp EXCEPT ![l] = [NoLoop EXCEPT !.pc = "delay", !.rem = d]]
    ELSE LoopTop(l, s, q, tm, lp)

\* what is left to do in this page and on this day, which bounds the counters
Pending(pcs) == Len(queue) + Cardinality({l \in LoopIds : loops[l].pc \in pcs})
AddAllowed ==
  /\ processedCount + Pending({"exec"}) < MaxProcessed
  /\ PersistedTodayCount + Pending({"exec", "inc_get"}) < MaxProcessed

\* one more control message (START_FOLLOW, STOP_FOLLOW, RESET_DAILY_STATS, a
\* page load) or direct call of a public method is handled
Called == calls < MaxCalls /\ calls' = calls + 1

\* queue.some(t => t.handle === task.handle)
SomeNever(q, h) == FALSE
Some(q, h) == \E i \in 1..Len(q) : q[i] = h

\* add(task) that also ends a limited state
AddResumes(h) ==
  /\ IF Some(queue, h)
       THEN UNCHANGED <<queue, order, discarded>>
       ELSE /\ AddAllowed
            /\ queue' = Append(queue, h)
            /\ order' = Append(order, h)
            /\ discarded' = discarded \ {h}
  /\ status' = IF status \in {"rate_limited", "daily_limit_reached"}
                 THEN "running" ELSE status
  /\ UNCHANGED <<processedCount, successCount, successSinceLastPause,
                 resumeTimer, pauseUntil, todayFollowCount, dailyLimitTimer,
                 config, loops, erlTimer, storage, day, stopCalled, calls>>
  /\ UNCHANGED resetHandler

\* add(task)
Add(h) ==
  /\ IF Some(queue, h)
       THEN UNCHANGED <<queue, order, discarded>>
       ELSE /\ AddAllowed
            /\ queue' = Append(queue, h)
            /\ order' = Append(order, h)
            /\ discarded' = discarded \ {h}
  /\ UNCHANGED <<status, processedCount, successCount, successSinceLastPause,
                 resumeTimer, pauseUntil, todayFollowCount, dailyLimitTimer,
                 config, loops, erlTimer, storage, day, stopCalled, calls>>
  /\ UNCHANGED resetHandler

\* start(): a no-op when running, else a new process() up to its first await
Start ==
  /\ Called
  /\ stopCalled' = FALSE
  /\ IF status = "running"
       THEN UNCHANGED <<status, queue, order, resumeTimer, loops>>
       ELSE \E l \in LoopIds :
              /\ ~Live(l)
              /\ \A k \in LoopIds : k < l => Live(k)
              /\ LoopTop(l, "running", queue, resumeTimer, loops)
  /\ UNCHANGED <<processedCount, successCount, successSinceLastPause,
                 pauseUntil, todayFollowCount, dailyLimitTimer,
                 config, erlTimer, storage, day>>
  /\ UNCHANGED <<resetHandler, discarded>>

\* pause()
Pause ==
  /\ Called
  /\ stopCalled' = FALSE
  /\ status' = "paused"
  /\ UNCHANGED <<queue, order, processedCount, successCount, successSinceLastPause,
                 resumeTimer, pauseUntil, todayFollowCount, dailyLimitTimer,
                 config, loops, erlTimer, storage, day>>
  /\ UNCHANGED <<resetHandler, discarded>>

\* stop() without the clearing of the queue
StopKeepsQueue ==
  /\ Called
  /\ status' = "stopped"
  /\ UNCHANGED <<queue, order>>
  /\ resumeTimer' = <<>>
  /\ dailyLimitTimer' = <<>>
  /\ erlTimer' = ClearErlTimer(resumeTimer, erlTimer)
  /\ loops' = ClearLoopTimer(dailyLimitTimer, "dl_wait",
                             ClearLoopTimer(resumeTimer, "cooldown", loops))
  /\ stopCalled' = TRUE
  /\ UNCHANGED <<processedCount, successCount, successSinceLastPause,
                 pauseUntil, todayFollowCount, config, storage, day>>
  /\ discarded' = discarded \cup {queue[i] : i \in 1..Len(queue)}
  /\ UNCHANGED resetHandler

\* stop() that also resets the counters
StopResets ==
  /\ Called
  /\ status' = "stopped"
  /\ queue' = <<>>
  /\ order' = <<>>
  /\ resumeTimer' = <<>>
  /\ dailyLimitTimer' = <<>>
  /\ erlTimer' = ClearErlTimer(resumeTimer, erlTimer)
  /\ loops' = ClearLoopTimer(dailyLimitTimer, "dl_wait",
                             ClearLoopTimer(resumeTimer, "cooldown", loops))
  /\ stopCalled' = TRUE
  /\ processedCount' = 0
  /\ successCount' = 0
  /\ UNCHANGED <<successSinceLastPause,
                 pauseUntil, todayFollowCount, config, storage, day>>
  /\ discarded' = discarded \cup {queue[i] : i \in 1..Len(queue)}
  /\ UNCHANGED resetHandler

\* stop()
Stop ==
  /\ Called
  /\ status' = "stopped"
  /\ queue' = <<>>
  /\ order' = <<>>
  /\ resumeTimer' = <<>>
  /\ dailyLimitTimer' = <<>>
  /\ erlTimer' = ClearErlTimer(resumeTimer, erlTimer)
  /\ loops' = ClearLoopTimer(dailyLimitTimer, "dl_wait",
                             ClearLoopTimer(resumeTimer, "cooldown", loops))
  /\ stopCalled' = TRUE
  /\ UNCHANGED <<processedCount, successCount, successSinceLastPause,
                 pauseUntil, todayFollowCount, config, storage, day>>
  /\ discarded' = discarded \cup {queue[i] : i \in 1..Len(queue)}
  /\ UNCHANGED resetHandler

\* resumeAfterRateLimit()
ResumeAfterRateLimit ==
  /\ Called
  /\ stopCalled' = FALSE
  /\ successSinceLastPause' = 0
  /\ status' = "running"
  /\ pauseUntil' = <<>>
  /\ resumeTimer' = <<>>
  /\ erlTimer' = ClearErlTimer(resumeTimer, erlTimer)
  /\ loops' = ClearLoopTimer(resumeTimer, "cooldown", loops)
  /\ UNCHANGED <<queue, order, processedCount, successCount, todayFollowCount,
                 dailyLimitTimer, config, storage, day>>
  /\ UNCHANGED <<resetHandler, discarded>>

\* resumeFromDailyLimit()
ResumeFromDailyLimit ==
  /\ Called
  /\ stopCalled' = FALSE
  /\ todayFollowCount' = 0
  /\ status' = "running"
  /\ dailyLimitTimer' = <<>>
  /\ loops' = ClearLoopTimer(dailyLimitTimer, "dl_wait", loops)
  /\ UNCHANGED <<queue, order, processedCount, successCount, successSinceLastPause,
                 resumeTimer, pauseUntil, config, erlTimer, storage, day>>
  /\ UNCHANGED <<resetHandler, discarded>>


\* ------------------------------------------------- process(), after an await
\* task.onExecute() settles, with a catch that ends process()
ExecDoneThrowEnds(l, r) ==
  /\ loops[l].pc = "exec"
  /\ processedCount' = processedCount + 1
  /\ IF r = "true"
       THEN /\ successCount' = successCount + 1
            /\ successSinceLastPause' = successSinceLastPause + 1
            /\ loops' = [loops EXCEPT ![l] =
                 [NoLoop EXCEPT !.pc = "inc_get",
                                !.stats = <<GetDailyStats(dailyStats, TodayDateString)>>]]
            /\ UNCHANGED <<status, queue, order, resumeTimer>>
       ELSE IF r = "false"
         THEN /\ DelayOrTop(l, status, queue, resumeTimer, loops)
              /\ UNCHANGED <<successCount, successSinceLastPause>>
       ELSE /\ loops' = [loops EXCEPT ![l] = NoLoop]
            /\ UNCHANGED <<status, queue, order, resumeTimer,
                           successCount, successSinceLastPause>>
  /\ UNCHANGED <<pauseUntil, todayFollowCount, dailyLimitTimer, config,
                 erlTimer, storage, day, stopCalled, calls>>
  /\ UNCHANGED <<resetHandler, discarded>>

\* task.onExecute() settles: r is "true", "false" or "throw"
ExecDone(l, r) ==
  /\ loops[l].pc = "exec"
  /\ processedCount' = processedCount + 1
  /\ IF r = "true"
       THEN \* incrementDailyFollowCount() is called: its getDailyStats reads
            /\ successCount' = successCount + 1
            /\ successSinceLastPause' = successSinceLastPause + 1
            /\ loops' = [loops EXCEPT ![l] =
                 [NoLoop EXCEPT !.pc = "inc_get",
                                !.stats = <<GetDailyStats(dailyStats, TodayDateString)>>]]
            /\ UNCHANGED <<status, queue, order, resumeTimer>>
       ELSE IF r = "false"
         THEN /\ DelayOrTop(l, status, queue, resumeTimer, loops)
              /\ UNCHANGED <<successCount, successSinceLastPause>>
       ELSE \* the catch block, then the test of the while
            /\ LoopTop(l, status, queue, resumeTimer, loops)
            /\ UNCHANGED <<successCount, successSinceLastPause>>
  /\ UNCHANGED <<pauseUntil, todayFollowCount, dailyLimitTimer, config,
                 erlTimer, storage, day, stopCalled, calls>>
  /\ UNCHANGED <<resetHandler, discarded>>

\* incrementDailyFollowCount, after getDailyStats: the incremented record
\* is written
IncRead(l) ==
  /\ loops[l].pc = "inc_get"
  /\ dailyStats' = <<IncrementedStats(loops[l].stats[1], TodayDateString)>>
  /\ loops' = [loops EXCEPT ![l] = [NoLoop EXCEPT !.pc = "inc_set"]]
  /\ UNCHANGED <<engine, order, config, erlTimer, settings, rateLimitState,
                 dailyLimitState, day, stopCalled, calls>>
  /\ UNCHANGED <<resetHandler, discarded>>

\* process(), after await incrementDailyFollowCount(), with the rate limit
\* tested before the daily limit
IncDoneRateFirst(l) ==
  /\ loops[l].pc = "inc_set"
  /\ todayFollowCount' = todayFollowCount + 1
  /\ IF successSinceLastPause >= pauseThreshold
       THEN /\ status' = "rate_limited"
            /\ pauseUntil' = <<pauseDuration>>
            /\ rateLimitState' = <<[pauseUntil |-> pauseDuration,
                                    successSinceLastPause |-> successSinceLastPause]>>
            /\ loops' = [loops EXCEPT ![l] = [NoLoop EXCEPT !.pc = "rl_set"]]
            /\ UNCHANGED <<queue, order, resumeTimer, dailyLimitState>>
       ELSE IF todayFollowCount + 1 >= dailyLimit
         THEN /\ status' = "daily_limit_reached"
              /\ dailyLimitState' = <<[isLimited |-> TRUE]>>
              /\ loops' = [loops EXCEPT ![l] =
                   [NoLoop EXCEPT !.pc = "dl_set", !.midnight = day + 1]]
              /\ UNCHANGED <<queue, order, resumeTimer, pauseUntil, rateLimitState>>
       ELSE /\ DelayOrTop(l, status, queue, resumeTimer, loops)
            /\ UNCHANGED <<pauseUntil, rateLimitState, dailyLimitState>>
  /\ UNCHANGED <<processedCount, successCount, successSinceLastPause,
                 dailyLimitTimer, config, erlTimer, settings, dailyStats, day,
                 stopCalled, calls>>
  /\ UNCHANGED <<resetHandler, discarded>>

\* process(), after await incrementDailyFollowCount(): the daily limit, then
\* the rate limit, then the delay
IncDone(l) ==
  /\ loops[l].pc = "inc_set"
  /\ todayFollowCount' = todayFollowCount + 1
  /\ IF todayFollowCount + 1 >= dailyLimit
       THEN \* handleDailyLimitReached, to its await of setDailyLimitState
            /\ status' = "daily_limit_reached"
            /\ dailyLimitState' = <<[isLimited |-> TRUE]>>
            /\ loops' = [loops EXCEPT ![l] =
                 [NoLoop EXCEPT !.pc = "dl_set", !.midnight = day + 1]]
            /\ UNCHANGED <<queue, order, resumeTimer, pauseUntil, rateLimitState>>
       ELSE IF successSinceLastPause >= pauseThreshold
         THEN /\ status' = "rate_limited"
              /\ pauseUntil' = <<pauseDuration>>
              /\ rateLimitState' = <<[pauseUntil |-> pauseDuration,
                                      successSinceLastPause |-> successSinceLastPause]>>
              /\ loops' = [loops EXCEPT ![l] = [NoLoop EXCEPT !.pc = "rl_set"]]
              /\ UNCHANGED <<queue, order, resumeTimer, dailyLimitState>>
       ELSE /\ DelayOrTop(l, status, queue, resumeTimer, loops)
            /\ UNCHANGED <<pauseUntil, rateLimitState, dailyLimitState>>
  /\ UNCHANGED <<processedCount, successCount, successSinceLastPause,
                 dailyLimitTimer, config, erlTimer, settings, dailyStats, day,
                 stopCalled, calls>>
  /\ UNCHANGED <<resetHandler, discarded>>

\* handleDailyLimitReached, after await setDailyLimitState: the midnight
\* timer is armed
DlSetDone(l) ==
  /\ loops[l].pc = "dl_set"
  /\ dailyLimitTimer' = <<l>>
  /\ loops' = [loops EXCEPT ![l].pc = "dl_wait"]
  /\ UNCHANGED <<queue, order, status, processedCount, successCount,
                 successSinceLastPause, resumeTimer, pauseUntil,
                 todayFollowCount, config, erlTimer, storage, day, stopCalled, calls>>
  /\ UNCHANGED <<resetHandler, discarded>>

\* the midnight timer of handleDailyLimitReached fires
DailyTimerFire(l) ==
  /\ loops[l].pc = "dl_wait"
  /\ day >= loops[l].midnight
  /\ dailyLimitTimer' = <<>>
  /\ todayFollowCount' = 0
  /\ status' = "running"
  /\ dailyLimitState' = <<>>
  /\ loops' = [loops EXCEPT ![l] = [NoLoop EXCEPT !.pc = "dl_clear"]]
  /\ UNCHANGED <<queue, order, processedCount, successCount, successSinceLastPause,
                 resumeTimer, pauseUntil, config, erlTimer, settings,
                 rateLimitState, dailyStats, day, stopCalled, calls>>
  /\ UNCHANGED <<resetHandler, discarded>>

\* the timer callback after await clearDailyLimitState resolves the promise:
\* handleDailyLimitReached returns and process() continues
DlClearDone(l) ==
  /\ loops[l].pc = "dl_clear"
  /\ LoopTop(l, status, queue, resumeTimer, loops)
  /\ UNCHANGED <<processedCount, successCount, successSinceLastPause,
                 pauseUntil, todayFollowCount, dailyLimitTimer, config,
                 erlTimer, storage, day, stopCalled, calls>>
  /\ UNCHANGED <<resetHandler, discarded>>

\* process(), after await setRateLimitState: continue
RlSetDone(l) ==
  /\ loops[l].pc = "rl_set"
  /\ LoopTop(l, status, queue, resumeTimer, loops)
  /\ UNCHANGED <<processedCount, successCount, successSinceLastPause,
                 pauseUntil, todayFollowCount, dailyLimitTimer, config,
                 erlTimer, storage, day, stopCalled, calls>>
  /\ UNCHANGED <<resetHandler, discarded>>

\* the cooldown timer of process() fires and process() resumes, to its await
\* of clearRateLimitState
CooldownTimerFire(l) ==
  /\ loops[l].pc = "cooldown"
  /\ loops[l].rem = 0
  /\ resumeTimer' = <<>>
  /\ successSinceLastPause' = 0
  /\ rateLimitState' = <<>>
  /\ loops' = [loops EXCEPT ![l] = [NoLoop EXCEPT !.pc = "rl_clear"]]
  /\ UNCHANGED <<queue, order, status, processedCount, successCount, pauseUntil,
                 todayFollowCount, dailyLimitTimer, config, erlTimer, settings,
                 dailyStats, dailyLimitState, day, stopCalled, calls>>
  /\ UNCHANGED <<resetHandler, discarded>>

\* process(), after await clearRateLimitState: running again, continue
RlClearDone(l) ==
  /\ loops[l].pc = "rl_clear"
  /\ LoopTop(l, "running", queue, resumeTimer, loops)
  /\ UNCHANGED <<processedCount, successCount, successSinceLastPause,
                 pauseUntil, todayFollowCount, dailyLimitTimer, config,
                 erlTimer, storage, day, stopCalled, calls>>
  /\ UNCHANGED <<resetHandler, discarded>>

\* the idle wait or the inter-task delay is over: continue
Wake(l) ==
  /\ loops[l].pc \in {"idle", "delay"}
  /\ loops[l].rem = 0
  /\ LoopTop(l, status, queue, resumeTimer, loops)
  /\ UNCHANGED <<processedCount, successCount, successSinceLastPause,
                 pauseUntil, todayFollowCount, dailyLimitTimer, config,
                 erlTimer, storage, day, stopCalled, calls>>
  /\ UNCHANGED <<resetHandler, discarded>>

\* the timer of enterRateLimitState fires
ErlTimerFire ==
  /\ erlTimer = <<0>>
  /\ erlTimer' = <<>>
  /\ resumeTimer' = <<>>
  /\ successSinceLastPause' = 0
  /\ pauseUntil' = <<>>
  /\ status' = "running"
  /\ UNCHANGED <<queue, order, processedCount, successCount, todayFollowCount,
                 dailyLimitTimer, config, loops, storage, day, stopCalled, calls>>
  /\ UNCHANGED <<resetHandler, discarded>>

\* ------------------------------------------------------------------- time
Dec(n) == IF n > 0 THEN n - 1 ELSE 0
DecOpt(t) == IF t = <<>> THEN t ELSE <<Dec(t[1])>>

\* something is still waiting for time to pass
Timed ==
  \/ \E l \in LoopIds : loops[l].rem > 0
  \/ erlTimer # <<>> /\ erlTimer[1] > 0
  \/ pauseUntil # <<>> /\ pauseUntil[1] > 0
  \/ rateLimitState # <<>> /\ rateLimitState[1].pauseUntil > 0

\* one unit of time passes
Tick ==
  /\ Timed
  /\ loops' = [l \in LoopIds |-> [loops[l] EXCEPT !.rem = Dec(@)]]
  /\ erlTimer' = DecOpt(erlTimer)
  /\ pauseUntil' = DecOpt(pauseUntil)
  /\ rateLimitState' = IF rateLimitState = <<>> THEN <<>>
                       ELSE <<[rateLimitState[1] EXCEPT !.pauseUntil = Dec(@)]>>
  /\ UNCHANGED <<queue, order, status, processedCount, successCount,
                 successSinceLastPause, resumeTimer, todayFollowCount,
                 dailyLimitTimer, config, settings, dailyStats,
                 dailyLimitState, day, stopCalled, calls>>
  /\ UNCHANGED <<resetHandler, discarded>>

\* local midnight passes
Midnight ==
  /\ day < MaxDay
  /\ day' = day + 1
  /\ UNCHANGED <<engine, order, config, loops, erlTimer, storage, stopCalled, calls>>
  /\ UNCHANGED <<resetHandler, discarded>>

\* -------------------------------------------------------------- content.ts
\* main(): the page is loaded again.  The queue is constructed from the
\* settings, a cooldown that has not expired is entered again, one that has
\* is cleared; checkAndResetDailyStats; updateDailyLimit.
Reload ==
  LET limited == rateLimitState # <<>> /\ rateLimitState[1].pauseUntil > 0
      stats == GetDailyStats(dailyStats, TodayDateString)
      newday == stats.today.date # TodayDateString
  IN
  /\ Called
  /\ stopCalled' = FALSE
  /\ queue' = <<>>
  /\ order' = <<>>
  /\ processedCount' = 0
  /\ successCount' = 0
  /\ resumeTimer' = IF limited THEN <<ErlTimerId>> ELSE <<>>
  /\ todayFollowCount' = 0
  /\ dailyLimitTimer' = <<>>
  /\ minDelay' = Option(settings.minDelay, DefaultMinDelay)
  /\ maxDelay' = Option(settings.maxDelay, DefaultMaxDelay)
  /\ pauseThreshold' = IF limited THEN settings.rateLimitThreshold
                       ELSE Option(settings.rateLimitThreshold, DefaultPauseThreshold)
  /\ pauseDuration' = IF limited THEN settings.rateLimitDuration
                      ELSE Option(settings.rateLimitDuration, DefaultPauseDuration)
  /\ dailyLimit' = IF dailyLimitState # <<>> /\ dailyLimitState[1].isLimited /\ ~newday
                     THEN settings.dailyFollowLimit
                     ELSE Option(settings.dailyFollowLimit, DefaultDailyLimit)
  /\ loops' = [l \in LoopIds |-> NoLoop]
  \* enterRateLimitState(pauseUntil, successSinceLastPause)
  /\ status' = IF limited THEN "rate_limited" ELSE "idle"
  /\ pauseUntil' = IF limited THEN <<rateLimitState[1].pauseUntil>> ELSE <<>>
  /\ successSinceLastPause' =
       IF limited THEN rateLimitState[1].successSinceLastPause ELSE 0
  /\ erlTimer' = IF limited THEN <<rateLimitState[1].pauseUntil>> ELSE <<>>
  /\ rateLimitState' = IF limited THEN rateLimitState ELSE <<>>
  \* checkAndResetDailyStats
  /\ dailyStats' = IF newday THEN <<stats>> ELSE dailyStats
  /\ dailyLimitState' = IF newday THEN <<>> ELSE dailyLimitState
  /\ UNCHANGED <<settings, day>>
  /\ resetHandler' = "none"
  /\ discarded' = {}

\* ------------------------------------------------------------ specification
\* a first page load on an empty store
Init ==
  /\ settings \in Settings
  /\ rateLimitState = <<>>
  /\ dailyStats = <<>>
  /\ dailyLimitState = <<>>
  /\ day = 0
  /\ queue = <<>>
  /\ status = "idle"
  /\ processedCount = 0
  /\ successCount = 0
  /\ successSinceLastPause = 0
  /\ resumeTimer = <<>>
  /\ pauseUntil = <<>>
  /\ todayFollowCount = 0
  /\ dailyLimitTimer = <<>>
  /\ minDelay = Option(settings.minDelay, DefaultMinDelay)
  /\ maxDelay = Option(settings.maxDelay, DefaultMaxDelay)
  /\ pauseThreshold = Option(settings.rateLimitThreshold, DefaultPauseThreshold)
  /\ pauseDuration = Option(settings.rateLimitDuration, DefaultPauseDuration)
  /\ dailyLimit = Option(settings.dailyFollowLimit, DefaultDailyLimit)
  /\ loops = [l \in LoopIds |-> NoLoop]
  /\ erlTimer = <<>>
  /\ order = <<>>
  /\ calls = 0
  /\ stopCalled = FALSE
  /\ resetHandler = "none"
  /\ discarded = {}

Next ==
  \/ \E h \in Handles : Add(h)
  \/ Start
  \/ Pause
  \/ Stop
  \/ ResumeAfterRateLimit
  \/ ResumeFromDailyLimit
  \/ Reload
  \/ \E l \in LoopIds, r \in {"true", "false", "throw"} : ExecDone(l, r)
  \/ \E l \in LoopIds : IncRead(l)
  \/ \E l \in LoopIds : IncDone(l)
  \/ \E l \in LoopIds : DlSetDone(l)
  \/ \E l \in LoopIds : DailyTimerFire(l)
  \/ \E l \in LoopIds : DlClearDone(l)
  \/ \E l \in LoopIds : RlSetDone(l)
  \/ \E l \in LoopIds : CooldownTimerFire(l)
  \/ \E l \in LoopIds : RlClearDone(l)
  \/ \E l \in LoopIds : Wake(l)
  \/ ErlTimerFire
  \/ Tick
  \/ Midnight

Spec == Init /\ [][Next]_vars


\* One page session after another in which START_FOLLOW is sent to the queue
\* as main() and its timer left it, and nothing else is sent: tasks and page
\* loads.  No process() returns in such a session, so start() is called at
\* most once with an effect.
StartOnce == LiveLoops = {} /\ Start

NextReload ==
  \/ \E h \in Handles : Add(h)
  \/ StartOnce
  \/ Reload
  \/ \E l \in LoopIds, r \in {"true", "false", "throw"} : ExecDone(l, r)
  \/ \E l \in LoopIds : IncRead(l)
  \/ \E l \in LoopIds : IncDone(l)
  \/ \E l \in LoopIds : DlSetDone(l)
  \/ \E l \in LoopIds : DailyTimerFire(l)
  \/ \E l \in LoopIds : DlClearDone(l)
  \/ \E l \in LoopIds : RlSetDone(l)
  \/ \E l \in LoopIds : CooldownTimerFire(l)
  \/ \E l \in LoopIds : RlClearDone(l)
  \/ \E l \in LoopIds : Wake(l)
  \/ ErlTimerFire
  \/ Tick
  \/ Midnight

SpecReload == Init /\ [][NextReload]_vars

\* ------------------------------------------- content.ts: RESET_DAILY_STATS
\* the message arrives: resetDailyStats() writes an empty record for today
\* and awaits the write.  One such handler is in flight at a time.
ResetDailyStatsMsg ==
  /\ Called
  /\ stopCalled' = FALSE
  /\ resetHandler = "none"
  /\ resetHandler' = "set"
  /\ dailyStats' = <<[today |-> [date |-> TodayDateString, count |-> 0],
                      history |-> <<>>]>>
  /\ UNCHANGED <<engine, order, config, loops, erlTimer, settings,
                 rateLimitState, dailyLimitState, day>>
  /\ UNCHANGED discarded

\* resetDailyStats(), after await set: clearDailyLimitState
ResetStatsWritten ==
  /\ resetHandler = "set"
  /\ resetHandler' = "clear"
  /\ dailyLimitState' = <<>>
  /\ UNCHANGED <<engine, order, config, loops, erlTimer, settings,
                 rateLimitState, dailyStats, day, stopCalled, calls>>
  /\ UNCHANGED discarded

\* the handler, after await resetDailyStats(): queue.resumeFromDailyLimit()
ResetResumes ==
  /\ resetHandler = "clear"
  /\ resetHandler' = "none"
  /\ todayFollowCount' = 0
  /\ status' = "running"
  /\ dailyLimitTimer' = <<>>
  /\ loops' = ClearLoopTimer(dailyLimitTimer, "dl_wait", loops)
  /\ UNCHANGED <<queue, order, processedCount, successCount, successSinceLastPause,
                 resumeTimer, pauseUntil, config, erlTimer, storage, day,
                 stopCalled, calls>>
  /\ UNCHANGED discarded

\* The page sessions of SpecReload in which RESET_DAILY_STATS is sent too.
NextReset ==
  \/ NextReload
  \/ ResetDailyStatsMsg
  \/ ResetStatsWritten
  \/ ResetResumes

SpecReset == Init /\ [][NextReset]_vars

\* ------------------------------------------------ the daily-stats record
\* The functions of storage.ts on the daily-stats key, called one after the
\* other over many days, each running to its end before the next.  After
\* the first VaryDays days there is one follow a day.
statsOthers == <<engine, order, config, loops, erlTimer, settings,
                 rateLimitState, day, stopCalled, calls, resetHandler, discarded>>

\* incrementDailyFollowCount()
StatsIncrement ==
  /\ PersistedTodayCount < (IF day < VaryDays THEN MaxDayCount ELSE 1)
  /\ dailyStats' = <<IncrementedStats(GetDailyStats(dailyStats, TodayDateString),
                                      TodayDateString)>>
  /\ UNCHANGED <<statsOthers, dailyLimitState>>

\* checkAndResetDailyStats(): it writes when the record getDailyStats
\* returned is not of today
StatsCheckAndReset ==
  LET stats == GetDailyStats(dailyStats, TodayDateString)
  IN IF stats.today.date # TodayDateString
       THEN /\ dailyStats' =
                 <<[today |-> [date |-> TodayDateString, count |-> 0],
                    history |-> SliceLast(Append(stats.history, stats.today), HistoryCap)]>>
            /\ dailyLimitState' = <<>>
            /\ UNCHANGED statsOthers
       ELSE UNCHANGED vars

\* resetDailyStats()
StatsReset ==
  /\ day < VaryDays
  /\ dailyStats' = <<[today |-> [date |-> TodayDateString, count |-> 0],
                      history |-> <<>>]>>
  /\ dailyLimitState' = <<>>
  /\ UNCHANGED statsOthers

\* local midnight passes
StatsNextDay ==
  /\ day < MaxStatDay
  /\ day < VaryDays \/ PersistedTodayCount > 0
  /\ day' = day + 1
  /\ UNCHANGED <<engine, order, config, loops, erlTimer, storage, stopCalled,
                 calls, resetHandler, discarded>>

NextStats ==
  \/ StatsIncrement
  \/ StatsCheckAndReset
  \/ StatsReset
  \/ StatsNextDay

SpecStats == Init /\ [][NextStats]_vars

\* a step of a process() instance or of a timer callback
LoopStep ==
  \/ \E l \in LoopIds, r \in {"true", "false", "throw"} : ExecDone(l, r)
  \/ \E l \in LoopIds : IncRead(l)
  \/ \E l \in LoopIds : IncDone(l)
  \/ \E l \in LoopIds : DlSetDone(l)
  \/ \E l \in LoopIds : DailyTimerFire(l)
  \/ \E l \in LoopIds : DlClearDone(l)
  \/ \E l \in LoopIds : RlSetDone(l)
  \/ \E l \in LoopIds : CooldownTimerFire(l)
  \/ \E l \in LoopIds : RlClearDone(l)
  \/ \E l \in LoopIds : Wake(l)
  \/ ErlTimerFire

\* ------------------------------------------------- one FollowQueue, every method
\* the values a caller passes for a threshold, a duration or a limit, for a
\* saved success count and for the time left until a saved pauseUntil
ConfigValues == {1, 2}
SavedCounts == {0, 1}
SavedPauses == {0, 1}

\* updateRateLimitConfig that also restarts the count of successes
UpdateRateLimitConfigRestarts(threshold, duration) ==
  /\ Called
  /\ stopCalled' = FALSE
  /\ pauseThreshold' = threshold
  /\ pauseDuration' = duration
  /\ successSinceLastPause' = 0
  /\ UNCHANGED <<queue, status, processedCount, successCount, resumeTimer,
                 pauseUntil, todayFollowCount, dailyLimitTimer,
                 order, minDelay, maxDelay, dailyLimit, loops,
                 erlTimer, storage, day>>
  /\ UNCHANGED <<resetHandler, discarded>>

\* updateRateLimitConfig(threshold, duration)
UpdateRateLimitConfig(threshold, duration) ==
  /\ Called
  /\ stopCalled' = FALSE
  /\ pauseThreshold' = threshold
  /\ pauseDuration' = duration
  /\ UNCHANGED <<engine, order, minDelay, maxDelay, dailyLimit, loops,
                 erlTimer, storage, day>>
  /\ UNCHANGED <<resetHandler, discarded>>

\* updateDailyLimit(limit)
UpdateDailyLimit(limit) ==
  /\ Called
  /\ stopCalled' = FALSE
  /\ dailyLimit' = limit
  /\ UNCHANGED <<engine, order, minDelay, maxDelay, pauseThreshold,
                 pauseDuration, loops, erlTimer, storage, day>>
  /\ UNCHANGED <<resetHandler, discarded>>

\* enterRateLimitState(until, count), until being the time left to the
\* pauseUntil passed: to its await when that is in the future.  One timer of
\* this method is held, so the call is taken when none is pending.
EnterRateLimitState(until, count) ==
  /\ Called
  /\ stopCalled' = FALSE
  /\ erlTimer = <<>>
  /\ status' = "rate_limited"
  /\ pauseUntil' = <<until>>
  /\ successSinceLastPause' = count
  /\ resumeTimer' = IF until > 0 THEN <<ErlTimerId>> ELSE resumeTimer
  /\ erlTimer' = IF until > 0 THEN <<until>> ELSE <<>>
  /\ UNCHANGED <<queue, order, processedCount, successCount, todayFollowCount,
                 dailyLimitTimer, config, loops, storage, day>>
  /\ UNCHANGED <<resetHandler, discarded>>

\* a call of getStats(): it reads the fields
GetStats == UNCHANGED vars

\* One FollowQueue object and every public method it has, called in any
\* order; the page is not loaded again.
NextOps ==
  \/ \E h \in Handles : Add(h)
  \/ Start
  \/ Pause
  \/ Stop
  \/ ResumeAfterRateLimit
  \/ ResumeFromDailyLimit
  \/ \E t, d \in ConfigValues : UpdateRateLimitConfig(t, d)
  \/ \E n \in ConfigValues : UpdateDailyLimit(n)
  \/ \E p \in SavedPauses, n \in SavedCounts : EnterRateLimitState(p, n)
  \/ GetStats
  \/ LoopStep
  \/ Tick
  \/ Midnight

SpecOps == Init /\ [][NextOps]_vars

\* The same program where every callback that can run does run, time passes
\* and midnight comes: the event loop runs a settled promise's continuation
\* and a timer that is due, and onExecute() settles.  Nothing is assumed of
\* the calls from outside.
FairSpec ==
  Spec /\ WF_vars(LoopStep) /\ WF_vars(Tick) /\ WF_vars(Midnight)

\* ------------------------------------------------------- one page session
\* The session of a first page load (no cooldown is restored, so
\* enterRateLimitState is not called) in which START_FOLLOW is sent once and
\* nothing else is: tasks are added, one process() runs, time passes.
NextRun ==
  \/ \E h \in Handles : Add(h)
  \/ StartOnce
  \/ \E l \in LoopIds, r \in {"true", "false", "throw"} : ExecDone(l, r)
  \/ \E l \in LoopIds : IncRead(l)
  \/ \E l \in LoopIds : IncDone(l)
  \/ \E l \in LoopIds : DlSetDone(l)
  \/ \E l \in LoopIds : DailyTimerFire(l)
  \/ \E l \in LoopIds : DlClearDone(l)
  \/ \E l \in LoopIds : RlSetDone(l)
  \/ \E l \in LoopIds : CooldownTimerFire(l)
  \/ \E l \in LoopIds : RlClearDone(l)
  \/ \E l \in LoopIds : Wake(l)
  \/ Tick
  \/ Midnight

SpecRun == Init /\ [][NextRun]_vars

\* The same session with the configuration updated while it runs.
NextConfig ==
  \/ NextRun
  \/ \E t, d \in ConfigValues : UpdateRateLimitConfig(t, d)
  \/ \E n \in ConfigValues : UpdateDailyLimit(n)

SpecConfig == Init /\ [][NextConfig]_vars

\* ------------------------------------- process(): a persistence call rejects
\* await incrementDailyFollowCount() rejects (the read of getDailyStats or
\* the write does, so nothing is written): the catch block, then the test
\* of the while
IncThrows(l) ==
  /\ loops[l].pc = "inc_get"
  /\ processedCount' = processedCount + 1
  /\ LoopTop(l, status, queue, resumeTimer, loops)
  /\ UNCHANGED <<successCount, successSinceLastPause, pauseUntil,
                 todayFollowCount, dailyLimitTimer, config, erlTimer, storage,
                 day, stopCalled, calls>>
  /\ UNCHANGED <<resetHandler, discarded>>

\* process(), after await incrementDailyFollowCount(), when the write of
\* setDailyLimitState or of setRateLimitState it then issues is going to
\* reject: the fields are set, nothing is written
IncDoneSetFails(l) ==
  /\ loops[l].pc = "inc_set"
  /\ todayFollowCount' = todayFollowCount + 1
  /\ IF todayFollowCount + 1 >= dailyLimit
       THEN /\ status' = "daily_limit_reached"
            /\ loops' = [loops EXCEPT ![l] = [NoLoop EXCEPT !.pc = "dl_fail"]]
            /\ UNCHANGED pauseUntil
       ELSE /\ successSinceLastPause >= pauseThreshold
            /\ status' = "rate_limited"
            /\ pauseUntil' = <<pauseDuration>>
            /\ loops' = [loops EXCEPT ![l] = [NoLoop EXCEPT !.pc = "rl_fail"]]
  /\ UNCHANGED <<queue, order, processedCount, successCount, successSinceLastPause,
                 resumeTimer, dailyLimitTimer, config, erlTimer, storage, day,
                 stopCalled, calls>>
  /\ UNCHANGED <<resetHandler, discarded>>

\* the await of setDailyLimitState or of setRateLimitState rejects: the
\* catch block, then the test of the while
SetThrows(l) ==
  /\ loops[l].pc \in {"dl_fail", "rl_fail"}
  /\ processedCount' = processedCount + 1
  /\ LoopTop(l, status, queue, resumeTimer, loops)
  /\ UNCHANGED <<successCount, successSinceLastPause, pauseUntil,
                 todayFollowCount, dailyLimitTimer, config, erlTimer, storage,
                 day, stopCalled, calls>>
  /\ UNCHANGED <<resetHandler, discarded>>

\* The page session of SpecRun in which browser.storage.local may reject.
NextFail ==
  \/ NextRun
  \/ \E l \in LoopIds : IncThrows(l)
  \/ \E l \in LoopIds : IncDoneSetFails(l)
  \/ \E l \in LoopIds : SetThrows(l)

SpecFail == Init /\ [][NextFail]_vars

\* ------------------------------------------------------------------ claims
\* a step in which some task's onExecute() is called
TaskStarts ==
  \E l \in LoopIds :
    /\ loops'[l].pc = "exec"
    /\ \/ loops[l].pc # "exec"
       \/ processedCount' # processedCount /\ queue' # queue

\* C1: at most one instance of process() is live at any time.
C1_OneLoop == Cardinality(LiveLoops) <= 1

\* C2: at no time are two tasks' onExecute() calls in flight.
C2_SerializedExecution == Cardinality(Executing) <= 1

\* C3: from stop() until the next call of a public method, status stays
\* 'stopped' and no task's onExecute() begins.
C3_StopIsTerminal == [][stopCalled' => (status' = "stopped" /\ ~TaskStarts)]_vars

\* a timer armed by the engine (the midnight timer, the timer of
\* enterRateLimitState, the cooldown timer of process() followed by its
\* continuation) sets status back to 'running'
TimerRestarts ==
  /\ status # "running"
  /\ status' = "running"
  /\ \/ \E l \in LoopIds : DailyTimerFire(l)
     \/ ErlTimerFire
     \/ \E l \in LoopIds : RlClearDone(l)

\* C4: after stop(), no cooldown or daily-quota timer fires and sets status
\* back to 'running'.
C4_NoTimerAfterStop == [][stopCalled => ~TimerRestarts]_vars

\* C5: right after any call of stop(), getStats() reports status 'stopped'
\* and remaining 0.
C5_StopStats ==
  [][Stop => (getStats'.status = "stopped" /\ getStats'.remaining = 0)]_vars

\* stop() was called while a task was executing and others had been pending
C5_Witness ==
  /\ stopCalled
  /\ Executing # {}
  /\ processedCount > 0
  /\ getStats.status = "stopped"

\* C6: the pending queue never holds two tasks with the same handle, and an
\* add() of a handle that is pending leaves the queue as it is.
C6_NoDuplicateHandles ==
  /\ [](\A i, j \in 1..Len(queue) : queue[i] = queue[j] => i = j)
  /\ [][\A h \in Handles : (Add(h) /\ Some(queue, h)) => queue' = queue]_vars

\* every handle is pending, each once
C6_Witness == Len(queue) = Cardinality(Handles)

\* C7: a task that starts executing is the one add() accepted first among
\* those accepted and neither started nor discarded yet.
C7_FifoStart ==
  [][\A l \in LoopIds :
       (TaskStarts /\ loops'[l].pc = "exec" /\ loops'[l] # loops[l])
         => (order # <<>> /\ loops'[l].task = Head(order))]_vars

\* the task accepted first executes while the one accepted after it is still
\* pending
C7_Witness ==
  /\ processedCount = 0
  /\ \E l \in LoopIds : loops[l].pc = "exec" /\ loops[l].task = "b"
  /\ queue = <<"a">>

\* a cooldown entered by process() that has not ended: the loop has set
\* status to 'rate_limited' and its cooldown timer has neither fired nor
\* been cleared
InCooldown == \E l \in LoopIds : loops[l].pc \in {"rl_set", "cooldown"}

\* C8: from the success that reaches pauseThreshold until that cooldown has
\* ended, no task is dequeued or executed.
C8_NoTaskInCooldown == InCooldown => Executing = {}

\* C9: the persisted daily-stats count for the current date never exceeds
\* the daily limit.
C9_PersistedCountWithinLimit ==
  (dailyStats # <<>> /\ dailyStats[1].today.date = TodayDateString)
    => dailyStats[1].today.count <= settings.dailyFollowLimit

\* the quota wait of handleDailyLimitReached: entered, and its midnight
\* timer has neither fired nor been cleared
InQuotaWait == \E l \in LoopIds : loops[l].pc \in {"dl_set", "dl_wait"}

\* C10: during the quota wait no task is dequeued or executed, whatever
\* add() and start() calls arrive.
C10_NoTaskInQuotaWait == [][(InQuotaWait /\ InQuotaWait') => ~TaskStarts]_vars


\* the persisted count of today has reached the daily limit
QuotaSpent == PersistedTodayCount >= dailyLimit

\* C11: while the persisted count of the current day is at the daily limit,
\* no task's onExecute() begins, in the page that reached the limit and in
\* every page loaded after it.
C11_RehydratedQuota == [][QuotaSpent => ~TaskStarts]_vars

\* a cooldown restored by enterRateLimitState whose pauseUntil is not reached
InRestoredCooldown == erlTimer # <<>> /\ erlTimer[1] > 0

\* C12: until the pauseUntil given to enterRateLimitState is reached, status
\* is 'rate_limited', pauseUntil and successSinceLastPause are the ones
\* given, and no task executes.
C12_RestoredCooldownHolds ==
  InRestoredCooldown =>
    /\ status = "rate_limited"
    /\ pauseUntil = erlTimer
    /\ rateLimitState # <<>>
    /\ successSinceLastPause = rateLimitState[1].successSinceLastPause
    /\ Executing = {}

\* C13: every start() leaves a process() instance live, so that a task added
\* after it is executed; in particular the start() that follows the expiry
\* of a restored cooldown.
C13_StartAfterRestoredCooldown == [][Start => LiveLoops' # {}]_vars


\* resumeAfterRateLimit() called while a loop waits in its cooldown, or
\* resumeFromDailyLimit() called while a loop waits for midnight
ResumedEarly ==
  \/ ResumeAfterRateLimit /\ \E l \in LoopIds : loops[l].pc = "cooldown"
  \/ ResumeFromDailyLimit /\ \E l \in LoopIds : loops[l].pc = "dl_wait"

\* C14: an early resume sets status to 'running' and leaves a process()
\* instance live to dequeue the tasks still pending.
C14_EarlyResumeProcesses ==
  [][ResumedEarly => (status' = "running" /\ (queue' # <<>> => LiveLoops' # {}))]_vars

\* a call of a public method that changes state
PublicCall ==
  \/ \E h \in Handles : Add(h)
  \/ Start
  \/ Pause
  \/ Stop
  \/ ResumeAfterRateLimit
  \/ ResumeFromDailyLimit
  \/ Reload

\* C15: pause() leaves the queue as it is and sets status to 'paused'; while
\* status is 'paused', nothing but a call of a public method changes status
\* or the queue, and no task's onExecute() begins.
C15_PauseHolds ==
  [][/\ Pause => (queue' = queue /\ status' = "paused")
     /\ (status = "paused" /\ ~PublicCall)
          => (status' = "paused" /\ queue' = queue /\ ~TaskStarts)]_vars

\* every live process() is at its wait on an empty queue
Polling == LiveLoops # {} /\ \A l \in LiveLoops : loops[l].pc = "idle"

\* C16: the engine does not stay 'running' for ever with an empty queue once
\* tasks have been processed: status becomes 'idle' (or a task is added or
\* a public method called).
C16_EventuallyIdle ==
  []<>(~(status = "running" /\ queue = <<>> /\ processedCount > 0 /\ Polling))


\* the success being counted reaches the daily limit and the pause threshold
BothReached ==
  /\ todayFollowCount + 1 >= dailyLimit
  /\ successSinceLastPause >= pauseThreshold

\* C17: a success that reaches both limits enters 'daily_limit_reached' and
\* persists no cooldown record; the steps of its quota wait, to the loop's
\* return to the test of its while, neither set status to 'rate_limited'
\* nor persist a cooldown record.
C17_QuotaBeforeCooldown ==
  [][\A l \in LoopIds :
       /\ (IncDone(l) /\ BothReached)
            => /\ status' = "daily_limit_reached"
               /\ loops'[l].pc = "dl_set"
               /\ rateLimitState' = rateLimitState
               /\ pauseUntil' = pauseUntil
       /\ (DlSetDone(l) \/ DailyTimerFire(l) \/ DlClearDone(l))
            => /\ status' = "rate_limited" => status = "rate_limited"
               /\ rateLimitState' = rateLimitState
               /\ pauseUntil' = pauseUntil]_vars

\* the loop waits for midnight after a success that reached both limits, and
\* no cooldown record is stored
C17_Witness ==
  /\ status = "daily_limit_reached"
  /\ todayFollowCount >= dailyLimit
  /\ successSinceLastPause >= pauseThreshold
  /\ rateLimitState = <<>>
  /\ pauseUntil = <<>>
  /\ \E l \in LoopIds : loops[l].pc = "dl_wait"

\* C18: when a task's onExecute() throws in a running engine, processedCount
\* grows by one, successCount, successSinceLastPause, todayFollowCount and
\* status stay as they are, the loop stays live, and the next pending task,
\* if any, is the next to execute.
C18_ThrowIsFailure ==
  [][\A l \in LoopIds :
       (ExecDone(l, "throw") /\ status = "running")
         => /\ processedCount' = processedCount + 1
            /\ successCount' = successCount
            /\ successSinceLastPause' = successSinceLastPause
            /\ todayFollowCount' = todayFollowCount
            /\ dailyStats' = dailyStats
            /\ status' = status
            /\ loops'[l].pc # "none"
            /\ queue # <<>> => (loops'[l].pc = "exec" /\ loops'[l].task = Head(queue))]_vars

\* a first task failed without a success being counted, and the next one
\* executes in the same loop
C18_Witness ==
  /\ status = "running"
  /\ processedCount = 1
  /\ successCount = 0
  /\ successSinceLastPause = 0
  /\ Cardinality(LiveLoops) = 1
  /\ Executing # {}


\* C19: processedCount and successCount never decrease, whatever public
\* method is called and whatever status transition happens.
C19_CountersMonotonic ==
  [][processedCount' >= processedCount /\ successCount' >= successCount]_vars

\* stop() was called on an engine that had counted a success
C19_Witness ==
  /\ stopCalled
  /\ status = "stopped"
  /\ processedCount > 0
  /\ successCount > 0

\* C20: getStats() always returns total = processed + remaining with
\* remaining the length of the queue, and calling it changes nothing.
C20_StatsConsistent ==
  /\ [](/\ getStats.total = getStats.processed + getStats.remaining
        /\ getStats.remaining = Len(queue)
        /\ getStats.processed = processedCount)
  /\ [][GetStats => UNCHANGED vars]_vars

\* tasks have been processed and others are pending
C20_Witness == getStats.processed > 0 /\ getStats.remaining > 0


\* a cooldown ends: the cooldown timer of process() fires, the timer of
\* enterRateLimitState fires, or resumeAfterRateLimit() is called in one
CooldownEnds ==
  \/ \E l \in LoopIds : CooldownTimerFire(l)
  \/ ErlTimerFire
  \/ ResumeAfterRateLimit /\ status = "rate_limited"

\* C21: the step that ends a cooldown removes the persisted cooldown record.
C21_CooldownRecordRemoved == [][CooldownEnds => rateLimitState' = <<>>]_vars


\* C26: the callback in which a task's onExecute() settles, with another
\* task pending and the engine running, does not start the next task: an
\* inter-task delay comes first, whether the task returned true, returned
\* false or threw.
C26_DelayBetweenTasks ==
  [][\A l \in LoopIds :
       ((\E r \in {"true", "false", "throw"} : ExecDone(l, r))
          /\ status = "running" /\ queue # <<>>)
         => loops'[l].pc # "exec"]_vars

\* C28: successSinceLastPause is 0 throughout a cooldown entered by the loop.
C28_CounterZeroInCooldown == InCooldown => successSinceLastPause = 0

\* C29: pauseUntil is null whenever status is not 'rate_limited'.
C29_PauseUntilNullOutsideCooldown == status # "rate_limited" => pauseUntil = <<>>

\* an increment has been persisted and process() has not counted it yet
Counting == \E l \in LoopIds : loops[l].pc = "inc_set"

\* C30: whenever no increment is between its write and its count,
\* todayFollowCount equals the persisted count of the current day.
C30_TodayCountIsTodays == ~Counting => todayFollowCount = PersistedTodayCount


\* the engine is in a limited state
Limited == status \in {"rate_limited", "daily_limit_reached"}

\* C25: add() in a limited state appends the task unless its handle is
\* pending, and changes neither status nor a timer nor a loop; no step that
\* leaves the engine in the limited state starts a task; and the loop that
\* resumes from its cooldown or its quota wait executes the oldest pending
\* task.
C25_AddWhileLimited ==
  [][/\ \A h \in Handles :
          (Add(h) /\ Limited)
            => /\ queue' = IF Some(queue, h) THEN queue ELSE Append(queue, h)
               /\ status' = status
               /\ resumeTimer' = resumeTimer
               /\ dailyLimitTimer' = dailyLimitTimer
               /\ erlTimer' = erlTimer
               /\ loops' = loops
     /\ (Limited /\ status' = status) => ~TaskStarts
     /\ \A l \in LoopIds :
          ((RlClearDone(l) \/ (DlClearDone(l) /\ status = "running")) /\ queue # <<>>)
            => (loops'[l].pc = "exec" /\ loops'[l].task = Head(queue))]_vars

\* a task is pending while the loop waits in its cooldown
C25_Witness ==
  /\ status = "rate_limited"
  /\ queue # <<>>
  /\ Executing = {}
  /\ \E l \in LoopIds : loops[l].pc = "cooldown"

\* C27: right after the count that makes todayFollowCount reach dailyLimit,
\* status is 'daily_limit_reached' and getDailyLimitInfo() reports
\* isDailyLimited true and remaining 0.
C27_QuotaReachedInfo ==
  [][\A l \in LoopIds :
       (IncDone(l) /\ todayFollowCount + 1 >= dailyLimit)
         => /\ status' = "daily_limit_reached"
            /\ getDailyLimitInfo'.isDailyLimited
            /\ getDailyLimitInfo'.remaining = 0]_vars

\* dailyFollowLimit = 1 and one successful task
C27_Witness ==
  /\ dailyLimit = 1
  /\ processedCount = 1
  /\ successCount = 1
  /\ todayFollowCount = 1
  /\ getDailyLimitInfo.isDailyLimited
  /\ getDailyLimitInfo.remaining = 0


\* C22: the write of incrementDailyFollowCount raises the persisted count of
\* today by one over what is stored at the time of the write: no write to
\* the key (another increment, a reset) came between its read and its write.
C22_AtomicIncrement ==
  [][\A l \in LoopIds :
       IncRead(l) => dailyStats'[1].today.count = PersistedTodayCount + 1]_vars


\* C23: rolling over a record that was rolled over to the same date changes
\* nothing, and once an increment has persisted the rolled-over record, a
\* read on the same date returns it as it is: today's count one higher, the
\* history as the first read gave it.
C23_RolloverIdempotent ==
  LET once == GetDailyStats(dailyStats, TodayDateString)
      persisted == IncrementedStats(once, TodayDateString)
  IN /\ GetDailyStats(<<once>>, TodayDateString) = once
     /\ GetDailyStats(<<persisted>>, TodayDateString) = persisted
     /\ persisted.history = once.history
     /\ persisted.today = [date |-> TodayDateString, count |-> once.today.count + 1]

\* the stored record is of an earlier day and has a history
C23_Witness ==
  /\ dailyStats # <<>>
  /\ dailyStats[1].today.date < TodayDateString
  /\ dailyStats[1].today.count > 0
  /\ dailyStats[1].history # <<>>

\* C24: the stored history holds at most 30 entries, of past days in
\* chronological order; once more than 30 days have been rolled over it
\* holds exactly the 30 days before today, the oldest first.
C24_HistoryCapped ==
  dailyStats # <<>> =>
    LET h == dailyStats[1].history
        t == dailyStats[1].today
    IN /\ Len(h) <= HistoryCap
       /\ \A i \in 1..Len(h) : h[i].date < t.date
       /\ \A i, j \in 1..Len(h) : i < j => h[i].date < h[j].date
       /\ (t.date >= VaryDays + HistoryCap + 1)
            => /\ Len(h) = HistoryCap
               /\ \A i \in 1..HistoryCap :
                    h[i] = [date |-> t.date - HistoryCap - 1 + i, count |-> 1]

\* more than 30 days have been rolled over
C24_Witness ==
  /\ dailyStats # <<>>
  /\ dailyStats[1].today.date >= VaryDays + HistoryCap + 2
  /\ Len(dailyStats[1].history) = HistoryCap

\* loop l calls the onExecute() of a task it has just dequeued
Dequeues(l) ==
  /\ loops'[l].pc = "exec"
  /\ \/ loops[l].pc # "exec"
     \/ \E r \in {"true", "false", "throw"} : ExecDone(l, r)

\* C35: the tasks pending when stop() is called are removed from the queue
\* for good: none of them is executed afterwards, also not after a later
\* start(); a task that executes is one add() accepted after that stop().
C35_DiscardedForGood ==
  [][/\ Stop => (queue' = <<>> /\ \A i \in 1..Len(queue) : queue[i] \in discarded')
     /\ \A l \in LoopIds : Dequeues(l) => loops'[l].task \notin discarded]_vars

\* stop() has discarded pending tasks, start() was called after it and a
\* task executes
C35_Witness ==
  /\ discarded # {}
  /\ ~stopCalled
  /\ status = "running"
  /\ \E l \in LoopIds : loops[l].pc = "exec" /\ loops[l].task \notin discarded

\* a call of updateRateLimitConfig or of updateDailyLimit
ConfigUpdate ==
  \/ \E t, d \in ConfigValues : UpdateRateLimitConfig(t, d)
  \/ \E n \in ConfigValues : UpdateDailyLimit(n)

\* C31: updateRateLimitConfig(threshold, duration) changes pauseThreshold and
\* pauseDuration only, updateDailyLimit(limit) changes dailyLimit only:
\* status, queue, counters, pauseUntil, the timers and the waiting loops are
\* as before; the configuration changes in no other way, and the success
\* counted next is compared with the limit and the threshold as they are then.
C31_ConfigUpdateFrame ==
  [][/\ \A t, d \in ConfigValues :
          UpdateRateLimitConfig(t, d) =>
            /\ pauseThreshold' = t
            /\ pauseDuration' = d
            /\ UNCHANGED <<engine, minDelay, maxDelay, dailyLimit, loops,
                           erlTimer, storage>>
     /\ \A n \in ConfigValues :
          UpdateDailyLimit(n) =>
            /\ dailyLimit' = n
            /\ UNCHANGED <<engine, minDelay, maxDelay, pauseThreshold,
                           pauseDuration, loops, erlTimer, storage>>
     /\ config' # config => ConfigUpdate
     /\ \A l \in LoopIds :
          IncDone(l) =>
            IF todayFollowCount' >= dailyLimit
              THEN status' = "daily_limit_reached"
            ELSE IF successSinceLastPause >= pauseThreshold
              THEN status' = "rate_limited" /\ pauseUntil' = <<pauseDuration>>
            ELSE loops'[l].pc \notin {"dl_set", "rl_set"}]_vars

\* a success has reached a daily limit set by updateDailyLimit below the one
\* of the settings
C31_Witness ==
  /\ dailyLimit < settings.dailyFollowLimit
  /\ todayFollowCount = dailyLimit
  /\ status = "daily_limit_reached"
  /\ \E l \in LoopIds : loops[l].pc = "dl_set"

\* C32: getRateLimitInfo() reports isRateLimited exactly when status is
\* 'rate_limited'; then pauseUntil is not null and remainingMs is the time
\* left until it at the time of the call, 0 once it has passed, so that it
\* goes down as time passes; otherwise pauseUntil and remainingMs are null.
C32_RateLimitInfo ==
  /\ [](LET info == getRateLimitInfo
        IN /\ info.isRateLimited <=> status = "rate_limited"
           /\ info.isRateLimited =>
                /\ pauseUntil # <<>>
                /\ info.pauseUntil = pauseUntil
                /\ info.remainingMs # <<>>
                /\ info.remainingMs[1] >= 0
                /\ info.remainingMs[1] = pauseUntil[1]
           /\ ~info.isRateLimited =>
                /\ info.pauseUntil = <<>>
                /\ info.remainingMs = <<>>)
  /\ [][(Tick /\ status = "rate_limited" /\ getRateLimitInfo.remainingMs[1] > 0)
          => getRateLimitInfo'.remainingMs[1] = getRateLimitInfo.remainingMs[1] - 1]_vars

\* a cooldown whose pauseUntil has passed and whose timer has not yet fired:
\* the time left is reported as 0
C32_Witness ==
  /\ status = "rate_limited"
  /\ \E l \in LoopIds : loops[l].pc = "cooldown"
  /\ getRateLimitInfo.pauseUntil # <<>>
  /\ getRateLimitInfo.remainingMs = <<0>>

\* C33: whenever status is 'running' a process() instance is live, executing
\* or at a wait that will end, so that a task added then is dequeued.
C33_RunningHasLoop == status = "running" => LiveLoops # {}

\* status is none of 'paused', 'stopped' and the 'idle' a loop leaves
\* behind when it returns after pause() or stop()
Active == status \in {"running", "rate_limited", "daily_limit_reached"}

\* the quota wait of the last day the model follows: its midnight is not
\* modelled
LastQuotaWait == day = MaxDay /\ InQuotaWait

\* C34: once the engine has been started (a process() instance is live),
\* every task pending in the queue is eventually dequeued and executed,
\* unless stop() or pause() is called first, when every callback that can
\* run does run and time passes.
C34_EveryTaskExecuted ==
  \A h \in Handles :
    (LiveLoops # {} /\ Active /\ Some(queue, h))
      ~> (~Some(queue, h) \/ ~Active \/ LastQuotaWait)

\* the onExecute() of some task settles
TaskSettles == \E l \in LoopIds, r \in {"true", "false", "throw"} : ExecDone(l, r)

\* C36: processedCount goes up by exactly 1 for each task the loop dequeues
\* and finishes: by 1 when its onExecute() settles, whatever the outcome,
\* and at no other step, also not when a persistence call made after a
\* success rejects.
C36_ProcessedOncePerTask ==
  [][/\ TaskSettles => processedCount' = processedCount + 1
     /\ processedCount' # processedCount => TaskSettles]_vars

\* C37: with the rate-limit configuration unchanged, successSinceLastPause
\* never exceeds pauseThreshold.
C37_CounterWithinThreshold == successSinceLastPause <= pauseThreshold

\* C38: after the loop has entered a cooldown and recorded pauseUntil, no
\* task is dequeued before that time is reached, also when
\* updateRateLimitConfig changes pauseDuration meanwhile.
C38_NoDequeueBeforePauseUntil ==
  [][\A l \in LoopIds :
       (Dequeues(l) /\ pauseUntil # <<>>) => pauseUntil[1] = 0]_vars

\* C39: a page load on a date later than the stored today.date persists the
\* rolled-over record (the previous today record appended to the history, a
\* zero count for today) and removes the persisted daily-limit record.
C39_PageLoadRollsOver ==
  [][(Reload /\ dailyStats # <<>> /\ dailyStats[1].today.date < TodayDateString)
       => /\ dailyStats' =
               <<[today |-> [date |-> TodayDateString, count |-> 0],
                  history |-> SliceLast(Append(dailyStats[1].history,
                                               dailyStats[1].today), HistoryCap)]>>
          /\ dailyLimitState' = <<>>]_vars

\* the cooldown timers that are armed and have neither fired nor been
\* cleared: those of the process() instances and that of enterRateLimitState
CooldownTimers ==
  {l \in LoopIds : loops[l].pc = "cooldown"}
    \cup (IF erlTimer # <<>> THEN {ErlTimerId} ELSE {})

\* the midnight timers that are armed and have neither fired nor been cleared
MidnightTimers == {l \in LoopIds : loops[l].pc = "dl_wait"}

\* C40: at most one cooldown timer and at most one midnight timer are
\* outstanding, and an outstanding timer is the one resumeTimer or
\* dailyLimitTimer refers to, so that stop() can clear it.
C40_TimersReferenced ==
  /\ Cardinality(CooldownTimers) <= 1
  /\ Cardinality(MidnightTimers) <= 1
  /\ \A t \in CooldownTimers : resumeTimer = <<t>>
  /\ \A t \in MidnightTimers : dailyLimitTimer = <<t>>

=============================================================================
